---- MODULE Spec2Model ----
(***************************************************************************)
(* SleuthCPS (Scripts/sleuthCPS.py): the offset resolution engine.         *)
(*                                                                         *)
(* Two objects are modelled: InteractiveSleuth (the REPL's engine, the     *)
(* specification Spec, and SpecSession for a session that keeps the        *)
(* profile and image it was started with) and SleuthParser (the head-less  *)
(* engine, the specification SpecBatch).  SpecProbe applies the Metadata   *)
(* Probe of either object to byte strings drawn from a bounded set.        *)
(*                                                                         *)
(* Text fields of a profile row (offset, size, rOffset) are sequences of   *)
(* one-character strings, so that int(s, 0) and f"0x{v:X}" are computed    *)
(* and not assumed.  The alphabet is restricted to the characters listed   *)
(* in HexChars, "x", "X", "+", "-", " " and letters that are no digit;     *)
(* the literals 0o.., 0b.. and digit separators do not occur.  Names are   *)
(* atomic strings that carry no surrounding white space.                   *)
(***************************************************************************)
EXTENDS Integers, Sequences, FiniteSets, TLC

\* ------------------------------------------------------------------ bounds
\* Deepest chain of nested resolver calls that is followed before the model
\* gives up with "RecursionLimit" (the interpreter's own recursion limit).
MaxDepth == 8

\* Most copies of "_updated.csv" a profile path carries: analyze_rel is not
\* followed into a further correction beyond that.
MaxUpd == 2

\* Largest integer the model tells apart: Python's integers are unbounded,
\* and every value of MaxInt or more read from the image is held as MaxInt.
\* It is far above the length of any image, which is all such a value is
\* ever compared with.
MaxInt == 536870912

\* ------------------------------------------------------------ Python values
\* None, as the value of a byte string that was never loaded.
None == <<-1>>

EmptyMap == [n \in {} |-> 0]

\* The element of a set of one element: Only({F(x) : x \in {e}}) is F(e)
\* with e evaluated once, as a local variable of the code is.
Only(S) == CHOOSE v \in S : TRUE

\* d[k] = v of a dict whose values are integers.
MapSet(d, k, v) == [n \in (DOMAIN d) \cup {k} |-> IF n = k THEN v ELSE d[n]]

\* Head(b) + 256 * rest, or MaxInt if that is MaxInt or more.
Shifted(b, rest) ==
    IF rest > MaxInt \div 256 THEN MaxInt
    ELSE IF Head(b) + 256 * rest >= MaxInt THEN MaxInt
    ELSE Head(b) + 256 * rest

RECURSIVE from_bytes_little(_)
\* int.from_bytes(b, 'little'); the empty byte string gives 0.
from_bytes_little(b) ==
    IF Len(b) = 0 THEN 0
    ELSE Only({Shifted(b, rest) : rest \in {from_bytes_little(Tail(b))}})

\* b[lo:hi] of a byte string, lo and hi zero-based, with Python's treatment
\* of negative and overlong indices.
PySlice(b, lo, hi) ==
    LET n  == Len(b)
        nl == IF lo < 0 THEN (IF lo + n < 0 THEN 0 ELSE lo + n)
              ELSE (IF lo > n THEN n ELSE lo)
        nh == IF hi < 0 THEN (IF hi + n < 0 THEN 0 ELSE hi + n)
              ELSE (IF hi > n THEN n ELSE hi)
    IN  IF nl >= nh THEN <<>> ELSE SubSeq(b, nl + 1, nh)

\* ------------------------------------------------------------------- text
HexChars == <<"0","1","2","3","4","5","6","7","8","9","A","B","C","D","E","F">>
LowerHexChars == <<"0","1","2","3","4","5","6","7","8","9","a","b","c","d","e","f">>

\* The value of every character int() takes for a digit.
HexValue ==
    [c \in {HexChars[i] : i \in 1..16} \cup {LowerHexChars[i] : i \in 1..16} |->
        (CHOOSE i \in 1..16 : HexChars[i] = c \/ LowerHexChars[i] = c) - 1]

IsHexChar(c) == c \in DOMAIN HexValue
IsDecChar(c) == c \in DOMAIN HexValue /\ HexValue[c] < 10
DigitVal(c) == HexValue[c]

RECURSIVE DigitsVal(_, _, _)
\* The value of the digit string s in the given base, acc being the value of
\* the digits already read.
DigitsVal(s, base, acc) ==
    IF Len(s) = 0 THEN acc
    ELSE DigitsVal(Tail(s), base, acc * base + DigitVal(Head(s)))

RECURSIVE LStrip(_)
LStrip(s) == IF Len(s) > 0 /\ Head(s) = " " THEN LStrip(Tail(s)) ELSE s

RECURSIVE RStrip(_)
RStrip(s) ==
    IF Len(s) > 0 /\ s[Len(s)] = " " THEN RStrip(SubSeq(s, 1, Len(s) - 1)) ELSE s

\* str.strip()
Strip(s) == RStrip(LStrip(s))

\* int(digs, 16) or int(digs, 10) of a literal's digits, negated if neg: a
\* literal needs a digit, and a decimal literal with a leading zero is only
\* accepted if it is zero.
IntDigits(digs, hex, neg) ==
    IF /\ Len(digs) > 0
       /\ IF hex THEN \A i \in 1..Len(digs) : IsHexChar(digs[i])
          ELSE /\ \A i \in 1..Len(digs) : IsDecChar(digs[i])
               /\ digs[1] = "0" => \A i \in 1..Len(digs) : digs[i] = "0"
    THEN <<IF neg THEN 0 - DigitsVal(digs, IF hex THEN 16 ELSE 10, 0)
           ELSE DigitsVal(digs, IF hex THEN 16 ELSE 10, 0)>>
    ELSE <<>>

\* Whether the literal starts with the prefix 0x or 0X.
IsHexLiteral(body) ==
    Len(body) >= 2 /\ body[1] = "0" /\ body[2] \in {"x", "X"}

\* int(s, 0) of a literal without sign.
IntUnsigned(body, neg) ==
    IF IsHexLiteral(body) THEN IntDigits(SubSeq(body, 3, Len(body)), TRUE, neg)
    ELSE IntDigits(body, FALSE, neg)

\* int(s, 0) of a literal without surrounding blanks.
IntSigned(s) ==
    IF Len(s) > 0 /\ Head(s) \in {"-", "+"}
    THEN IntUnsigned(Tail(s), Head(s) = "-")
    ELSE IntUnsigned(s, FALSE)

\* int(s, 0): <<v>>, or <<>> for ValueError.
IntBase0(s0) == IntSigned(Strip(s0))

\* InteractiveSleuth.parse_num: <<v>>, or <<>> for ValueError("Invalid number").
parse_num(s) == IntBase0(Strip(s))

RECURSIVE HexDigits(_)
\* format(v, "X") of a non-negative v.
HexDigits(v) ==
    IF v < 16 THEN <<HexChars[v + 1]>>
    ELSE HexDigits(v \div 16) \o <<HexChars[(v % 16) + 1]>>

\* f"0x{v:X}": the sign, if any, follows the prefix.
FormatHex(v) ==
    IF v < 0 THEN <<"0", "x", "-">> \o HexDigits(0 - v)
    ELSE <<"0", "x">> \o HexDigits(v)

\* ----------------------------------------------------------- binary images
\* A byte string of length n that is zero except at the zero-based positions
\* in the domain of the function at.
Image(n, at) == [i \in 1..n |-> IF (i - 1) \in DOMAIN at THEN at[i - 1] ELSE 0]

\* 64 bytes: [4,8) = 16, [8,12) = 32, [12,16) = 0x20, [16,20) = 0x14.
Img64 == Image(64, (4 :> 16) @@ (8 :> 32) @@ (12 :> 32) @@ (16 :> 20))

\* 24 bytes: [4,8) = 200, [8,12) = 16, [12,16) = 0, [16,20) = 4.
Img24 == Image(24, (4 :> 200) @@ (8 :> 16) @@ (16 :> 4))

\* 6 bytes: [0,4) = 2.
Img6 == Image(6, (0 :> 2))

\* 20 bytes: [16,20) = 25, a pointer past the end of the image.
Img20 == Image(20, (16 :> 25))

\* The image files of the file system; every other path does not exist.
ImageFiles ==
    ("a.img" :> Img64) @@ ("b.img" :> Img24) @@ ("c.img" :> Img6)
        @@ ("d.img" :> Img20)

ImagePaths == DOMAIN ImageFiles \cup {"missing.img"}

\* ---------------------------------------------------------------- profiles
\* One row of a profile: csv.DictReader's dict over the five columns.
Row(name, offset, size, rOffset, parent) ==
    [name |-> name, offset |-> offset, size |-> size,
     rOffset |-> rOffset, parent |-> parent]

ExampleCsv ==
    << Row("Root", <<"0","x","0">>, <<"0","x","4","0">>, <<>>, ""),
       Row("Child", <<>>, <<>>, <<"0","x","8">>, "Root") >>

CycleCsv ==
    << Row("A", <<>>, <<>>, <<"4">>, "B"),
       Row("B", <<>>, <<>>, <<"4">>, "A"),
       Row("S", <<>>, <<>>, <<"1">>, "S"),
       Row("Root", <<"0","x","0">>, <<"0","x","4","0">>, <<>>, "") >>

BadCsv ==
    << Row("Child", <<>>, <<>>, <<"8">>, "Ghost"),
       Row("Root", <<" ","1","6"," ">>, <<"0","x","2","0">>, <<>>, ""),
       Row("Bad", <<>>, <<>>, <<"8">>, ""),
       Row("Leaf", <<"z","z">>, <<"4">>, <<>>, "") >>

ChainCsv ==
    << Row("Root", <<"1","6">>, <<"z">>, <<>>, ""),
       Row("Child", <<>>, <<"3","2">>, <<"-","4">>, "Root"),
       Row("Leaf", <<>>, <<>>, <<"-","0","x","2","8">>, "Child") >>

\* The profile files the file system holds before the program runs.
ProfileFiles ==
    ("example.csv" :> ExampleCsv) @@ ("cycle.csv" :> CycleCsv) @@
    ("bad.csv" :> BadCsv) @@ ("chain.csv" :> ChainCsv)

\* A path is a base name followed by upd copies of "_updated.csv".
Path(base, upd) == [base |-> base, upd |-> upd]

NoPath == Path("", 0)

\* The names a command may be given: every name of a profile, and one more.
Names == {"Root", "Child", "Leaf", "A", "B", "S", "Bad", "Ghost"}

\* ------------------------------------------------------------ Schema Index
\* self.structures, a dict in insertion order: a sequence of rows with
\* pairwise different names.
HasName(st, name) == \E i \in 1..Len(st) : st[i].name = name

RowOf(st, name) == st[CHOOSE i \in 1..Len(st) : st[i].name = name]

NamesOf(st) == {st[i].name : i \in 1..Len(st)}

\* self.structures[name] = row
DictPut(st, row) ==
    IF HasName(st, row.name)
    THEN [i \in 1..Len(st) |-> IF st[i].name = row.name THEN row ELSE st[i]]
    ELSE Append(st, row)

\* clean_row: every field stripped.
CleanRow(row) ==
    Row(row.name, Strip(row.offset), Strip(row.size), Strip(row.rOffset),
        row.parent)

RECURSIVE ReadRows(_, _)
\* The loop of load_csv over the rows of the file, st being the dict so far.
ReadRows(rows, st) ==
    IF Len(rows) = 0 THEN st
    ELSE ReadRows(Tail(rows),
                  IF Head(rows).name # "" THEN DictPut(st, CleanRow(Head(rows)))
                  ELSE st)

\* ---------------------------------------------------------- Metadata Probe
\* What a probe gives: a (data_ptr, size) pair and the layout that gave it,
\* or the exception it raised.
Meta(ptr, size, layout) ==
    [ok |-> TRUE, ptr |-> ptr, size |-> size, layout |-> layout]

NoMeta(why) == [ok |-> FALSE, ptr |-> 0, size |-> 0, layout |-> why]

\* A rule that looks at the pointer alone.
ValidMeta_ptr(ptr, size, n) == 0 <= ptr /\ ptr < n

\* The range-validity rule both layouts are accepted by.
ValidMeta(ptr, size, n) == 0 <= ptr /\ ptr < n /\ 0 <= ptr + size /\ ptr + size <= n

\* InteractiveSleuth._read_metadata
read_metadata(bd, meta_ptr) ==
    IF bd = None THEN NoMeta("TypeError")
    ELSE
    LET n           == Len(bd)
        data_ptr_32 == from_bytes_little(PySlice(bd, meta_ptr, meta_ptr + 4))
        size_32     == from_bytes_little(PySlice(bd, meta_ptr - 4, meta_ptr))
        data_ptr_64 == from_bytes_little(PySlice(bd, meta_ptr, meta_ptr + 8))
        size_64     == from_bytes_little(PySlice(bd, meta_ptr + 8, meta_ptr + 12))
    IN  IF meta_ptr < 0 \/ meta_ptr + 8 > n THEN NoMeta("out of range")
        ELSE IF ValidMeta(data_ptr_32, size_32, n)
             THEN Meta(data_ptr_32, size_32, "4+4")
        ELSE IF meta_ptr + 12 <= n /\ ValidMeta(data_ptr_64, size_64, n)
             THEN Meta(data_ptr_64, size_64, "8+4")
        ELSE NoMeta("no valid metadata")

\* ---------------------------------------------------------- Offset Resolver
\* What one call of the resolver gives: kind is "ok" and off the offset
\* returned, or kind is the error raised; ro and rs are the caches as the
\* call leaves them; depth is the deepest nesting of calls reached; computed
\* lists the names that were resolved past the cache, and probed the names
\* the Metadata Probe was invoked for and whether it succeeded, in the order
\* that happened.
Result(kind, off, ro, rs, depth, computed, probed) ==
    [kind |-> kind, off |-> off, ro |-> ro, rs |-> rs, depth |-> depth,
     computed |-> computed, probed |-> probed]

\* A resolver whose cache never answers.
CacheHit_never(name, ro) == FALSE

\* "if name in self.resolved_offsets": the cache answers.
CacheHit(name, ro) == name \in DOMAIN ro

\* A resolver that takes no name to be on the resolution path.
OnPath_never(name, visited) == FALSE

\* "if name in visited": the name is on the current resolution path.
OnPath(name, visited) == name \in visited

\* A resolver that forgets the names it has passed.
Visit_forget(visited, name) == visited

\* "visited.add(name)": the path with the name on it.
Visit(visited, name) == visited \cup {name}

\* A resolver that probes at the parent's own offset.
MetaPtr_parent(parent_off, r) == parent_off

\* Where the metadata of a relative descriptor is looked for.
MetaPtr(parent_off, r) == parent_off + r

\* A resolver that falls back to the parent's own offset.
FallbackOffset_parent(parent_off, r) == parent_off

\* The offset of a relative descriptor when the probe gives nothing.
FallbackOffset(parent_off, r) == parent_off + r

RECURSIVE resolve_offset_recursive(_, _, _, _, _, _, _)

\* The end of the relative branch: meta is what the probe gave, p the result
\* of the parent's resolution and r the relative offset.
ResolveProbed(meta, p, r, name) ==
    IF meta.ok
    THEN Result("ok", meta.ptr, MapSet(p.ro, name, meta.ptr),
                MapSet(p.rs, name, meta.size), p.depth,
                Append(p.computed, name), Append(p.probed, <<name, TRUE>>))
    ELSE Result("ok", FallbackOffset(p.off, r),
                MapSet(p.ro, name, FallbackOffset(p.off, r)), p.rs, p.depth,
                Append(p.computed, name), Append(p.probed, <<name, FALSE>>))

\* A relative branch that caches the relative offset for the name when the
\* parent's resolution fails.
ResolveUnderParent_caching(p, r, name, bd) ==
    IF p.kind # "ok" THEN [p EXCEPT !.ro = MapSet(p.ro, name, r)]
    ELSE Only({ResolveProbed(meta, p, r, name) :
                  meta \in {read_metadata(bd, MetaPtr(p.off, r))}})

\* The relative branch after the parent's resolution p: its exception is
\* passed on, otherwise the probe is made at parent_off + r.
ResolveUnderParent(p, r, name, bd) ==
    IF p.kind # "ok" THEN p
    ELSE Only({ResolveProbed(meta, p, r, name) :
                  meta \in {read_metadata(bd, MetaPtr(p.off, r))}})

\* The relative branch: r is parse_num(struct['rOffset']).
ResolveRelative(r, struct, name, visited, st, bd, ro, rs, d) ==
    IF r = <<>> THEN Result("InvalidOffsetLiteral", 0, ro, rs, d, <<>>, <<>>)
    ELSE Only({ResolveUnderParent(p, r[1], name, bd) :
                  p \in {resolve_offset_recursive(struct.parent,
                             Visit(visited, name), st, bd, ro, rs, d + 1)}})

\* The explicit branch: off is parse_num(struct['offset']).
ResolveExplicit(off, name, ro, rs, d) ==
    IF off = <<>> THEN Result("InvalidOffsetLiteral", 0, ro, rs, d, <<>>, <<>>)
    ELSE Result("ok", off[1], MapSet(ro, name, off[1]), rs, d, <<name>>, <<>>)

\* The resolution of a name that has the row struct in the profile.
ResolveRow(struct, name, visited, st, bd, ro, rs, d) ==
    IF struct.offset # <<>>
    THEN Only({ResolveExplicit(off, name, ro, rs, d) :
                  off \in {parse_num(struct.offset)}})
    ELSE IF struct.rOffset # <<>> /\ struct.parent # ""
    THEN Only({ResolveRelative(r, struct, name, visited, st, bd, ro, rs, d) :
                  r \in {parse_num(struct.rOffset)}})
    ELSE Result("MalformedDescriptor", 0, ro, rs, d, <<>>, <<>>)

\* InteractiveSleuth._resolve_offset_recursive(name, visited), called at
\* nesting depth d on the profile st, the image bd and the caches ro and rs.
resolve_offset_recursive(name, visited, st, bd, ro, rs, d) ==
    IF d > MaxDepth THEN Result("RecursionLimit", 0, ro, rs, d, <<>>, <<>>)
    ELSE IF CacheHit(name, ro)
         THEN Result("ok", ro[name], ro, rs, d, <<>>, <<>>)
    ELSE IF OnPath(name, visited)
         THEN Result("CircularReference", 0, ro, rs, d, <<>>, <<>>)
    ELSE IF ~HasName(st, name) THEN Result("NotFound", 0, ro, rs, d, <<>>, <<>>)
    ELSE Only({ResolveRow(struct, name, visited, st, bd, ro, rs, d) :
                  struct \in {RowOf(st, name)}})

\* SleuthParser._read_metadata: the 4+4 layout only.
parser_read_metadata(bd, meta_ptr) ==
    LET n           == Len(bd)
        data_ptr_32 == from_bytes_little(PySlice(bd, meta_ptr, meta_ptr + 4))
        size_32     == from_bytes_little(PySlice(bd, meta_ptr - 4, meta_ptr))
    IN  IF meta_ptr < 0 \/ meta_ptr >= n THEN NoMeta("out of range")
        ELSE IF meta_ptr + 8 <= n /\ ValidMeta(data_ptr_32, size_32, n)
             THEN Meta(data_ptr_32, size_32, "4+4")
        ELSE NoMeta("no valid metadata")

RECURSIVE get_absolute_offset(_, _, _, _, _, _, _)

\* A relative branch that takes the probe's pair only when the parent's
\* offset came from the cache, and falls back otherwise.
ParserProbed_cached(meta, p, r_offset, name) ==
    IF meta.ok /\ p.computed = <<>>
    THEN Result("ok", meta.ptr, MapSet(p.ro, name, meta.ptr),
                MapSet(p.rs, name, meta.size), p.depth,
                Append(p.computed, name), Append(p.probed, <<name, TRUE>>))
    ELSE Result("ok", p.off + r_offset,
                MapSet(p.ro, name, p.off + r_offset), p.rs, p.depth,
                Append(p.computed, name), Append(p.probed, <<name, FALSE>>))

\* The end of the relative branch of the batch resolver: meta is what the
\* probe gave, p the result of the parent's resolution.
ParserProbed(meta, p, r_offset, name) ==
    IF meta.ok
    THEN Result("ok", meta.ptr, MapSet(p.ro, name, meta.ptr),
                MapSet(p.rs, name, meta.size), p.depth,
                Append(p.computed, name), Append(p.probed, <<name, TRUE>>))
    ELSE Result("ok", p.off + r_offset,
                MapSet(p.ro, name, p.off + r_offset), p.rs, p.depth,
                Append(p.computed, name), Append(p.probed, <<name, FALSE>>))

\* The relative branch of the batch resolver after the parent's resolution.
ParserUnderParent(p, r_offset, name, bd) ==
    IF p.kind # "ok" THEN p
    ELSE Only({ParserProbed(meta, p, r_offset, name) :
                  meta \in {parser_read_metadata(bd, p.off + r_offset)}})

\* The relative branch of the batch resolver: r_offset is
\* int(structure['rOffset'], 0).
ParserRelative(r_offset, structure, name, visited, st, bd, ro, rs, d) ==
    IF r_offset = <<>>
    THEN Result("InvalidOffsetLiteral", 0, ro, rs, d, <<>>, <<>>)
    ELSE Only({ParserUnderParent(p, r_offset[1], name, bd) :
                  p \in {get_absolute_offset(structure.parent,
                             visited \cup {name}, st, bd, ro, rs, d + 1)}})

\* The explicit branch of the batch resolver: offset is
\* int(structure['offset'], 0).
ParserExplicit(offset, name, ro, rs, d) ==
    IF offset = <<>>
    THEN Result("InvalidOffsetLiteral", 0, ro, rs, d, <<>>, <<>>)
    ELSE Result("ok", offset[1], MapSet(ro, name, offset[1]), rs, d,
                <<name>>, <<>>)

\* The batch resolution of a name that has the row structure.
ParserRow(structure, name, visited, st, bd, ro, rs, d) ==
    IF structure.offset # <<>>
    THEN Only({ParserExplicit(offset, name, ro, rs, d) :
                  offset \in {IntBase0(structure.offset)}})
    ELSE IF structure.rOffset # <<>> /\ structure.parent # ""
    THEN Only({ParserRelative(r_offset, structure, name, visited, st, bd,
                              ro, rs, d) :
                  r_offset \in {IntBase0(structure.rOffset)}})
    ELSE Result("MalformedDescriptor", 0, ro, rs, d, <<>>, <<>>)

\* SleuthParser._get_absolute_offset(name, visited), called at nesting depth
\* d on the profile st, the image bd and the caches ro and rs.
get_absolute_offset(name, visited, st, bd, ro, rs, d) ==
    IF d > MaxDepth THEN Result("RecursionLimit", 0, ro, rs, d, <<>>, <<>>)
    ELSE IF name \in DOMAIN ro
         THEN Result("ok", ro[name], ro, rs, d, <<>>, <<>>)
    ELSE IF name \in visited
         THEN Result("CircularReference", 0, ro, rs, d, <<>>, <<>>)
    ELSE IF ~HasName(st, name) THEN Result("NotFound", 0, ro, rs, d, <<>>, <<>>)
    ELSE Only({ParserRow(structure, name, visited, st, bd, ro, rs, d) :
                  structure \in {RowOf(st, name)}})

\* ------------------------------------------------------------------ state
VARIABLES
    binary_path,        \* InteractiveSleuth.binary_path ("" for None)
    binary_data,        \* InteractiveSleuth.binary_data
    csv_path,           \* InteractiveSleuth.csv_path (NoPath for None)
    structures,         \* InteractiveSleuth.structures
    resolved_offsets,   \* InteractiveSleuth.resolved_offsets
    resolved_sizes,     \* InteractiveSleuth.resolved_sizes
    stale_offsets,      \* the names whose cached offset was stored before the
                        \* image or the profile was last replaced
    stale_sizes,        \* the same for the cached sizes
    result              \* what the last call of a SleuthParser method gave
                        \* its caller

\* In Spec and SpecSession the object is the REPL's InteractiveSleuth; in
\* SpecBatch binary_data, structures, resolved_offsets and resolved_sizes
\* are the fields of a SleuthParser.
vars == <<binary_path, binary_data, csv_path, structures, resolved_offsets,
          resolved_sizes, stale_offsets, stale_sizes, result>>

\* No SleuthParser method has been called.
NoResult == [method |-> "", name |-> "", kind |-> "", off |-> 0]

SeqToSet(q) == {q[i] : i \in 1..Len(q)}

\* The names a resolver call stored a discovered size for.
Sized(probed) == {probed[i][1] : i \in {j \in 1..Len(probed) : probed[j][2]}}

\* The stale entries after a step: when the step replaced the image or the
\* profile, every entry it left in the cache (dom) that it did not store
\* itself after the replacement; otherwise the entries that were stale and
\* were neither removed nor stored again (written).
StaleAfter(stale, dom, written, replaced) ==
    IF replaced THEN dom ELSE (stale \cap dom) \ written

\* InteractiveSleuth.__init__
Init ==
    /\ binary_path = ""
    /\ binary_data = None
    /\ csv_path = NoPath
    /\ structures = <<>>
    /\ resolved_offsets = EmptyMap
    /\ resolved_sizes = EmptyMap
    /\ stale_offsets = {}
    /\ stale_sizes = {}
    /\ result = NoResult

\* InteractiveSleuth.load_binary(path)
load_binary(path) ==
    /\ IF path \in DOMAIN ImageFiles
       THEN /\ binary_data' = ImageFiles[path]
            /\ binary_path' = path
       ELSE UNCHANGED <<binary_data, binary_path>>
    /\ stale_offsets' = StaleAfter(stale_offsets, DOMAIN resolved_offsets, {},
                                   binary_data' # binary_data)
    /\ stale_sizes' = StaleAfter(stale_sizes, DOMAIN resolved_sizes, {},
                                 binary_data' # binary_data)
    /\ UNCHANGED <<csv_path, structures, resolved_offsets, resolved_sizes,
                   result>>

\* The profiles a loadcsv command is given: the files that exist before the
\* program runs, and one path that does not exist.
ProfilePaths == {Path(b, 0) : b \in DOMAIN ProfileFiles \cup {"missing.csv"}}

\* InteractiveSleuth.load_csv(path) of a file that holds rows, or of a path
\* that does not exist.
load_csv_rows(exists, path, rows) ==
    /\ IF exists
       THEN /\ structures' = ReadRows(rows, <<>>)
            /\ csv_path' = path
       ELSE UNCHANGED <<structures, csv_path>>
    /\ stale_offsets' = StaleAfter(stale_offsets, DOMAIN resolved_offsets, {},
                                   structures' # structures)
    /\ stale_sizes' = StaleAfter(stale_sizes, DOMAIN resolved_sizes, {},
                                 structures' # structures)
    /\ UNCHANGED <<binary_path, binary_data, resolved_offsets, resolved_sizes,
                   result>>

\* The loadcsv command of the REPL.
load_csv(path) ==
    IF path.base \in DOMAIN ProfileFiles
    THEN load_csv_rows(TRUE, path, ProfileFiles[path.base])
    ELSE load_csv_rows(FALSE, path, <<>>)

\* The call of _resolve_offset_recursive(name) in the state as it is.
Resolving(name) ==
    resolve_offset_recursive(name, {}, structures, binary_data,
                             resolved_offsets, resolved_sizes, 1)

\* A resolver that persists what it finds: it writes the offset it returns
\* into the descriptor of the name.
resolve_persisting(name) ==
    \E r \in {Resolving(name)} :
        /\ resolved_offsets' = r.ro
        /\ resolved_sizes' = r.rs
        /\ stale_offsets' = StaleAfter(stale_offsets, DOMAIN r.ro,
                                       SeqToSet(r.computed), FALSE)
        /\ stale_sizes' = StaleAfter(stale_sizes, DOMAIN r.rs,
                                     Sized(r.probed), FALSE)
        /\ structures' =
              [i \in 1..Len(structures) |->
                  IF r.kind = "ok" /\ structures[i].name = name
                  THEN [structures[i] EXCEPT !.offset = FormatHex(r.off)]
                  ELSE structures[i]]
        /\ UNCHANGED <<binary_path, binary_data, csv_path, result>>

\* A direct call of InteractiveSleuth._resolve_offset_recursive(name).
resolve(name) ==
    \E r \in {Resolving(name)} :
        /\ resolved_offsets' = r.ro
        /\ resolved_sizes' = r.rs
        /\ stale_offsets' = StaleAfter(stale_offsets, DOMAIN r.ro,
                                       SeqToSet(r.computed), FALSE)
        /\ stale_sizes' = StaleAfter(stale_sizes, DOMAIN r.rs,
                                     Sized(r.probed), FALSE)
        /\ UNCHANGED <<binary_path, binary_data, csv_path, structures,
                       result>>

RECURSIVE ListLoop(_, _, _, _, _, _)
\* The loop of the list command over the rows still to do: every name is
\* resolved inside its own try, and a line is printed for it either way.
ListLoop(todo, st, bd, ro, rs, acc) ==
    IF Len(todo) = 0 THEN [ro |-> ro, rs |-> rs, lines |-> acc.lines,
                           computed |-> acc.computed, probed |-> acc.probed]
    ELSE
    Only({ListLoop(Tail(todo), st, bd, r.ro, r.rs,
                   [lines |-> Append(acc.lines,
                                     [name |-> Head(todo).name,
                                      kind |-> r.kind, off |-> r.off]),
                    computed |-> acc.computed \o r.computed,
                    probed |-> acc.probed \o r.probed]) :
             r \in {resolve_offset_recursive(Head(todo).name, {}, st, bd, ro,
                                             rs, 1)}})

\* What the list command does to the caches, and the lines it prints.
Listing ==
    ListLoop(structures, structures, binary_data, EmptyMap, resolved_sizes,
             [lines |-> <<>>, computed |-> <<>>, probed |-> <<>>])

\* The list command of the REPL.
list ==
    IF structures = <<>>
    THEN UNCHANGED vars
    ELSE
    \E l \in {Listing} :
        /\ resolved_offsets' = l.ro
        /\ resolved_sizes' = l.rs
        /\ stale_offsets' = {}
        /\ stale_sizes' = StaleAfter(stale_sizes, DOMAIN l.rs, Sized(l.probed),
                                     FALSE)
        /\ UNCHANGED <<binary_path, binary_data, csv_path, structures,
                       result>>

\* --------------------------------------------------- Consistency Reconciler
\* The path analyze_rel writes the corrected profile to.
UpdatedPath(cp) ==
    IF cp # NoPath THEN Path(cp.base, cp.upd + 1) ELSE Path("profile", 1)

\* The declared size and offset of a row as analyze_rel reads them: both
\* are <<>> (None) when either parse raises.
Declared(row) ==
    LET ps == parse_num(row.size)
        po == parse_num(row.offset)
        raised == \/ row.size # <<>> /\ ps = <<>>
                  \/ row.offset # <<>> /\ po = <<>>
    IN  [size   |-> IF raised \/ row.size = <<>> THEN <<>> ELSE ps,
         offset |-> IF raised \/ row.offset = <<>> THEN <<>> ELSE po]

\* A comparison of the sizes alone.
Mismatch_size(csv_size, csv_offset, size, absolute) ==
    \/ csv_size = <<>>
    \/ csv_size[1] # size

\* The test that decides whether the profile is rewritten.
Mismatch(csv_size, csv_offset, size, absolute) ==
    \/ csv_size = <<>>
    \/ csv_size[1] # size
    \/ csv_offset = <<>>
    \/ csv_offset[1] # absolute

\* A writer that drops the rOffset and parent of the row it corrects.
OutRow_bare(details, name, size, absolute) ==
    IF details.name = name
    THEN Row(details.name, FormatHex(absolute), FormatHex(size), <<>>, "")
    ELSE Row(details.name, details.offset, details.size, details.rOffset,
             details.parent)

\* The row written for details when the row of name is corrected.
OutRow(details, name, size, absolute) ==
    IF details.name = name
    THEN Row(details.name, FormatHex(absolute), FormatHex(size),
             details.rOffset, details.parent)
    ELSE Row(details.name, details.offset, details.size, details.rOffset,
             details.parent)

\* The rows of the updated profile.
UpdatedRows(st, name, size, absolute) ==
    [i \in 1..Len(st) |-> OutRow(st[i], name, size, absolute)]

\* A range test of the upper end alone.
OutOfRange_high(absolute, size, n) == absolute + size > n

\* The range test that decides whether the bytes are shown.
OutOfRange(absolute, size, n) == absolute < 0 \/ absolute + size > n

\* What analyze_rel leaves behind when it returns before the comparison.
Early(outcome, kind, ro, rs, st, cp) ==
    [outcome |-> outcome, kind |-> kind, ro |-> ro, rs |-> rs, st |-> st,
     cp |-> cp, absolute |-> 0, size |-> 0, rechased |-> FALSE,
     csv_size |-> <<>>, csv_offset |-> <<>>, corrected |-> FALSE,
     written |-> <<>>, oor |-> FALSE, shown |-> <<>>,
     computed |-> <<>>, probed |-> <<>>]

\* The rest of analyze_rel once the comparison is made: corrected says that
\* it asked for a correction, csv holds the declared values, absolute and
\* size the values found, and rechased says that the pointer at the resolved
\* offset replaced it.  written holds the rows of the file the call wrote,
\* which load_csv reads back before the call returns.
AnalyzeCompared(corrected, csv, absolute, size, rechased, r, name, st, bd, cp, writable) ==
    [outcome |-> "analyzed", kind |-> "ok",
     ro |-> IF rechased THEN MapSet(r.ro, name, absolute) ELSE r.ro,
     rs |-> IF rechased THEN MapSet(r.rs, name, size) ELSE r.rs,
     st |-> IF corrected /\ writable
            THEN ReadRows(UpdatedRows(st, name, size, absolute), <<>>)
            ELSE st,
     cp |-> IF corrected /\ writable THEN UpdatedPath(cp) ELSE cp,
     absolute |-> absolute, size |-> size, rechased |-> rechased,
     csv_size |-> csv.size, csv_offset |-> csv.offset,
     corrected |-> corrected,
     written |-> IF corrected /\ writable
                 THEN UpdatedRows(st, name, size, absolute)
                 ELSE <<>>,
     oor |-> OutOfRange(absolute, size, Len(bd)),
     shown |-> IF OutOfRange(absolute, size, Len(bd)) THEN <<>>
               ELSE PySlice(bd, absolute, absolute + size),
     computed |-> r.computed, probed |-> r.probed]

\* The rest of analyze_rel once the offset and the size are found.
AnalyzeMeasured(absolute, size, rechased, r, name, st, bd, cp, writable) ==
    Only({AnalyzeCompared(Mismatch(csv.size, csv.offset, size, absolute),
                          csv, absolute, size, rechased, r, name, st, bd, cp,
                          writable) :
             csv \in {Declared(RowOf(st, name))}})

\* The rest of analyze_rel once the resolver has given r: a cached size is
\* used as it is; otherwise the size is read from the four bytes before the
\* resolved offset and, if four bytes can be read at the offset, they
\* replace it and both are cached.
AnalyzeResolved(r, name, st, bd, cp, writable) ==
    IF r.kind # "ok"
    THEN Early("resolve failed", r.kind, r.ro, r.rs, st, cp)
    ELSE IF name \in DOMAIN r.rs
    THEN AnalyzeMeasured(r.off, r.rs[name], FALSE, r, name, st, bd, cp,
                         writable)
    ELSE IF r.off - 4 < 0 \/ (r.off - 4) + 4 > Len(bd)
    THEN [Early("size pointer out of range", "ok", r.ro, r.rs, st, cp)
             EXCEPT !.computed = r.computed, !.probed = r.probed]
    ELSE IF r.off + 4 <= Len(bd)
    THEN Only({AnalyzeMeasured(new_ptr, size, TRUE, r, name, st, bd, cp,
                               writable) :
                  new_ptr \in {from_bytes_little(PySlice(bd, r.off, r.off + 4))},
                  size \in {from_bytes_little(PySlice(bd, r.off - 4, r.off))}})
    ELSE Only({AnalyzeMeasured(r.off, size, FALSE, r, name, st, bd, cp,
                               writable) :
                  size \in {from_bytes_little(PySlice(bd, r.off - 4, r.off))}})

\* InteractiveSleuth.analyze_rel(name) on the profile st loaded from cp, the
\* image bd and the caches ro and rs.  writable says whether the updated
\* profile can be written; if not, the write raises and the profile stays.
analyze_rel_on(name, st, bd, ro, rs, cp, writable) ==
    IF bd = None THEN Early("no binary", "", ro, rs, st, cp)
    ELSE IF ~HasName(st, name) THEN Early("not found", "", ro, rs, st, cp)
    ELSE Only({AnalyzeResolved(r, name, st, bd, cp, writable) :
                  r \in {resolve_offset_recursive(name, {}, st, bd, ro, rs, 1)}})

\* The call of analyze_rel(name) in the state as it is.
Analyzing(name, writable) ==
    analyze_rel_on(name, structures, binary_data, resolved_offsets,
                   resolved_sizes, csv_path, writable)

\* The analyze_rel command of the REPL.
analyze_rel(name, writable) ==
    \E a \in {Analyzing(name, writable)} :
        /\ a.written # <<>> => csv_path.upd < MaxUpd
        /\ resolved_offsets' = a.ro
        /\ resolved_sizes' = a.rs
        /\ structures' = a.st
        /\ csv_path' = a.cp
        /\ stale_offsets' = StaleAfter(stale_offsets, DOMAIN a.ro,
                  SeqToSet(a.computed) \cup
                      (IF a.rechased THEN {name} ELSE {}),
                  a.st # structures)
        /\ stale_sizes' = StaleAfter(stale_sizes, DOMAIN a.rs,
                  Sized(a.probed) \cup (IF a.rechased THEN {name} ELSE {}),
                  a.st # structures)
        /\ UNCHANGED <<binary_path, binary_data, result>>

\* ---------------------------------------------------------------- the REPL
Next ==
    \/ \E path \in ImagePaths : load_binary(path)
    \/ \E path \in ProfilePaths : load_csv(path)
    \/ \E name \in Names : resolve(name)
    \/ list
    \/ \E name \in Names, writable \in BOOLEAN : analyze_rel(name, writable)

Spec == Init /\ [][Next]_vars

\* ------------------------------------------------- one session of the REPL
\* The state main() starts the REPL in when it is given a profile (-p) and
\* an image (-i), or only a profile.
InitSession ==
    /\ \E b \in DOMAIN ProfileFiles :
          /\ structures = ReadRows(ProfileFiles[b], <<>>)
          /\ csv_path = Path(b, 0)
    /\ \/ \E i \in DOMAIN ImageFiles :
             binary_data = ImageFiles[i] /\ binary_path = i
       \/ binary_data = None /\ binary_path = ""
    /\ resolved_offsets = EmptyMap
    /\ resolved_sizes = EmptyMap
    /\ stale_offsets = {}
    /\ stale_sizes = {}
    /\ result = NoResult

\* The commands of a session in which the user replaces neither the profile
\* nor the image.
NextSession ==
    \/ \E name \in Names : resolve(name)
    \/ list
    \/ \E name \in Names, writable \in BOOLEAN : analyze_rel(name, writable)

SpecSession == InitSession /\ [][NextSession]_vars

\* ------------------------------------------------------------ SleuthParser
RECURSIVE ParserReadRows(_, _)
\* The loop of SleuthParser.__init__ over the rows of the profile.
ParserReadRows(rows, st) ==
    IF Len(rows) = 0 THEN st
    ELSE ParserReadRows(Tail(rows), DictPut(st, CleanRow(Head(rows))))

\* SleuthParser(binary_file, csv_profile) for files that exist.
InitBatch ==
    /\ \E i \in DOMAIN ImageFiles :
          binary_data = ImageFiles[i] /\ binary_path = i
    /\ \E b \in DOMAIN ProfileFiles :
          /\ structures = ParserReadRows(ProfileFiles[b], <<>>)
          /\ csv_path = Path(b, 0)
    /\ resolved_offsets = EmptyMap
    /\ resolved_sizes = EmptyMap
    /\ stale_offsets = {}
    /\ stale_sizes = {}
    /\ result = NoResult

\* The call of SleuthParser._get_absolute_offset(name) in the state as it is.
ParserResolving(name) ==
    get_absolute_offset(name, {}, structures, binary_data, resolved_offsets,
                        resolved_sizes, 1)

\* A call of SleuthParser._get_absolute_offset(name).
parser_resolve(name) ==
    \E r \in {ParserResolving(name)} :
        /\ resolved_offsets' = r.ro
        /\ resolved_sizes' = r.rs
        /\ result' = [method |-> "_get_absolute_offset", name |-> name,
                      kind |-> r.kind, off |-> r.off]
        /\ UNCHANGED <<binary_path, binary_data, csv_path, structures,
                       stale_offsets, stale_sizes>>

RECURSIVE ResolveAllLoop(_, _, _, _, _)
\* The loop of resolve_all_offsets over the rows still to do: the first
\* exception ends it.  name is the name that raised, "" if none did.
ResolveAllLoop(todo, st, bd, ro, rs) ==
    IF Len(todo) = 0
    THEN [kind |-> "ok", name |-> "", ro |-> ro, rs |-> rs]
    ELSE IF Head(todo).name \in DOMAIN ro
    THEN ResolveAllLoop(Tail(todo), st, bd, ro, rs)
    ELSE
    Only({IF r.kind = "ok" THEN ResolveAllLoop(Tail(todo), st, bd, r.ro, r.rs)
          ELSE [kind |-> r.kind, name |-> Head(todo).name,
                ro |-> r.ro, rs |-> r.rs] :
             r \in {get_absolute_offset(Head(todo).name, {}, st, bd, ro, rs,
                                        1)}})

\* SleuthParser.resolve_all_offsets()
resolve_all_offsets ==
    \E l \in {ResolveAllLoop(structures, structures, binary_data,
                              resolved_offsets, resolved_sizes)} :
        /\ resolved_offsets' = l.ro
        /\ resolved_sizes' = l.rs
        /\ result' = [method |-> "resolve_all_offsets", name |-> l.name,
                      kind |-> l.kind, off |-> 0]
        /\ UNCHANGED <<binary_path, binary_data, csv_path, structures,
                       stale_offsets, stale_sizes>>

\* The row write_resolved_csv writes for details: the offset is the literal
\* of the resolved offset, 0 for a name that has none.
ResolvedRow(details, ro) ==
    Row(details.name,
        FormatHex(IF details.name \in DOMAIN ro THEN ro[details.name] ELSE 0),
        details.size, details.rOffset, details.parent)

\* The rows of the file write_resolved_csv writes.
ResolvedRows(st, ro) == [i \in 1..Len(st) |-> ResolvedRow(st[i], ro)]

\* SleuthParser.write_resolved_csv(output_csv_path): an exception of
\* resolve_all_offsets ends it before the file is opened.  rows holds the
\* rows of the file written.
write_resolved_csv ==
    \E l \in {ResolveAllLoop(structures, structures, binary_data,
                              resolved_offsets, resolved_sizes)} :
        /\ resolved_offsets' = l.ro
        /\ resolved_sizes' = l.rs
        /\ result' = [method |-> "write_resolved_csv", name |-> l.name,
                      kind |-> l.kind, off |-> 0,
                      rows |-> IF l.kind = "ok"
                               THEN ResolvedRows(structures, l.ro)
                               ELSE <<>>]
        /\ UNCHANGED <<binary_path, binary_data, csv_path, structures,
                       stale_offsets, stale_sizes>>

\* Whether the last call wrote a resolved profile.
Wrote == result.method = "write_resolved_csv" /\ result.kind = "ok"

\* The profile a new SleuthParser reads from the rows of a file.
Reloaded(rows) == ParserReadRows(rows, <<>>)

\* SleuthParser(binary_file, output_csv_path): a new parser on the same image
\* and the resolved profile just written.
parser_init_resolved ==
    /\ Wrote
    /\ structures' = Reloaded(result.rows)
    /\ csv_path' = Path("resolved.csv", 0)
    /\ resolved_offsets' = EmptyMap
    /\ resolved_sizes' = EmptyMap
    /\ result' = NoResult
    /\ UNCHANGED <<binary_path, binary_data, stale_offsets, stale_sizes>>

\* What view_structure and dump_structure have when the offset is resolved:
\* the size is int(details['size'], 0), and the bytes are the slice
\* binary_data[offset:offset+size].  warned says whether anything was
\* reported about the range: neither method tests it.
ViewSized(size, r, name, bd) ==
    IF size = <<>>
    THEN [kind |-> "InvalidSize", off |-> r.off, size |-> 0, data |-> <<>>,
          warned |-> FALSE, ro |-> r.ro, rs |-> r.rs]
    ELSE [kind |-> "ok", off |-> r.off, size |-> size[1],
          data |-> PySlice(bd, r.off, r.off + size[1]),
          warned |-> FALSE, ro |-> r.ro, rs |-> r.rs]

\* The part view_structure and dump_structure share, once the resolver has
\* given r.
ViewResolved(r, name, st, bd) ==
    IF r.kind # "ok"
    THEN [kind |-> r.kind, off |-> 0, size |-> 0, data |-> <<>>,
          warned |-> FALSE, ro |-> r.ro, rs |-> r.rs]
    ELSE Only({ViewSized(size, r, name, bd) :
                  size \in {IntBase0(RowOf(st, name).size)}})

\* The call of view_structure(name), or of dump_structure(name), in the
\* state as it is.
Viewing(name) ==
    Only({ViewResolved(r, name, structures, binary_data) :
             r \in {ParserResolving(name)}})

\* What a call of method leaves behind when it has v.
Viewed(method, name, v) ==
    /\ resolved_offsets' = v.ro
    /\ resolved_sizes' = v.rs
    /\ result' = [method |-> method, name |-> name, kind |-> v.kind,
                  off |-> v.off, size |-> v.size, data |-> v.data,
                  warned |-> v.warned]
    /\ UNCHANGED <<binary_path, binary_data, csv_path, structures,
                   stale_offsets, stale_sizes>>

\* SleuthParser.view_structure(name): data is what the hexdump shows.
view_structure(name) ==
    \E v \in {Viewing(name)} : Viewed("view_structure", name, v)

\* SleuthParser.dump_structure(name): data is what the file holds.
dump_structure(name) ==
    \E v \in {Viewing(name)} : Viewed("dump_structure", name, v)

NextBatch ==
    \/ \E name \in Names : parser_resolve(name)
    \/ resolve_all_offsets
    \/ write_resolved_csv
    \/ parser_init_resolved
    \/ \E name \in Names : view_structure(name)
    \/ \E name \in Names : dump_structure(name)

SpecBatch == InitBatch /\ [][NextBatch]_vars

\* ----------------------------------------------------------- Metadata Probe
\* The lengths, word positions and byte values of the images the probes are
\* run on, and the positions they are run at.
ProbeLens == {12, 16}

ProbeWordsAt == {0, 4, 8, 12}

ProbeBytes == {0, 4, 12, 20}

ProbePtrs == -1..16

\* Every image of one of the lengths that holds one of the values in the
\* low byte of each word and zero elsewhere.
ProbeImages ==
    {Image(n, at) : n \in ProbeLens, at \in [ProbeWordsAt -> ProbeBytes]}

\* A byte string is in memory, and neither probe has been called.
InitProbe ==
    /\ binary_data \in ProbeImages
    /\ binary_path = "probe.img"
    /\ csv_path = NoPath
    /\ structures = <<>>
    /\ resolved_offsets = EmptyMap
    /\ resolved_sizes = EmptyMap
    /\ stale_offsets = {}
    /\ stale_sizes = {}
    /\ result = NoResult

\* What a call of a probe at meta_ptr leaves: meta is the pair returned, or
\* the exception raised.
Probed(method, meta_ptr, meta) ==
    /\ result' = [method |-> method, name |-> "", kind |-> "",
                  off |-> meta_ptr, meta |-> meta]
    /\ UNCHANGED <<binary_path, binary_data, csv_path, structures,
                   resolved_offsets, resolved_sizes, stale_offsets,
                   stale_sizes>>

\* A call of InteractiveSleuth._read_metadata(meta_ptr).
probe_interactive(meta_ptr) ==
    Probed("InteractiveSleuth._read_metadata", meta_ptr,
           read_metadata(binary_data, meta_ptr))

\* A call of SleuthParser._read_metadata(meta_ptr).
probe_batch(meta_ptr) ==
    Probed("SleuthParser._read_metadata", meta_ptr,
           parser_read_metadata(binary_data, meta_ptr))

NextProbe ==
    \/ \E meta_ptr \in ProbePtrs : probe_interactive(meta_ptr)
    \/ \E meta_ptr \in ProbePtrs : probe_batch(meta_ptr)

SpecProbe == InitProbe /\ [][NextProbe]_vars

\* ------------------------------------------------------------------ claims
\* Whether the row of name states an explicit offset that is a number.
ExplicitOffset(st, name) ==
    /\ HasName(st, name)
    /\ RowOf(st, name).offset # <<>>
    /\ parse_num(RowOf(st, name).offset) # <<>>

\* Whether the row of name is a relative descriptor: no explicit offset, and
\* both rOffset and parent.
Relative(st, name) ==
    /\ HasName(st, name)
    /\ RowOf(st, name).offset = <<>>
    /\ RowOf(st, name).rOffset # <<>>
    /\ RowOf(st, name).parent # ""

\* C1: once the image or the profile has been replaced, no resolve call
\* returns an offset or a discovered size that was cached before the
\* replacement.
C1_NoStaleResolution ==
    \A name \in Names :
        LET r == Resolving(name)
        IN  r.kind = "ok" =>
              /\ ~(name \in DOMAIN resolved_offsets /\ name \in stale_offsets)
              /\ ~(/\ name \in DOMAIN r.rs
                   /\ name \in stale_sizes
                   /\ name \notin Sized(r.probed))

\* C2: in every state the program reaches, resolving a name whose descriptor
\* has an explicit offset returns that literal offset.
C2_ExplicitReturnsLiteral ==
    \A name \in Names :
        ExplicitOffset(structures, name) =>
            /\ Resolving(name).kind = "ok"
            /\ Resolving(name).off = parse_num(RowOf(structures, name).offset)[1]

\* Whether a and b are each other's parent, both relative.
TwoCycle(st, a, b) ==
    /\ a # b
    /\ Relative(st, a) /\ RowOf(st, a).parent = b
    /\ Relative(st, b) /\ RowOf(st, b).parent = a

\* C3: with a profile loaded in which A's parent is B and B's parent is A,
\* both relative, resolve(A) and resolve(B) fail with CircularReference; and
\* a call for a name that is on the resolution path fails with
\* CircularReference at the depth it was made at.
C3_CycleIsReported ==
    /\ \A a, b \in Names :
          TwoCycle(structures, a, b) =>
              /\ Resolving(a).kind = "CircularReference"
              /\ Resolving(b).kind = "CircularReference"
    /\ \A name \in Names \ DOMAIN resolved_offsets :
          LET r == resolve_offset_recursive(name, {name}, structures,
                       binary_data, resolved_offsets, resolved_sizes, 2)
          IN  r.kind = "CircularReference" /\ r.depth = 2

\* C3 witness: in a profile with a two-cycle the resolver has run and cached
\* a name outside the cycle, and resolving a member of the cycle goes round
\* it once before it is refused.
C3_Witness ==
    /\ resolved_offsets # EmptyMap
    /\ \E a, b \in Names :
          /\ TwoCycle(structures, a, b)
          /\ Resolving(a).kind = "CircularReference"
          /\ Resolving(a).depth = 3

\* The kinds of outcome a resolver call ends with.
Outcomes ==
    {"ok", "CircularReference", "NotFound", "InvalidOffsetLiteral",
     "MalformedDescriptor"}

\* C4: every resolve call ends, with an offset or with an error, and never
\* nests deeper than the number of names in the profile plus one.
C4_ResolveTerminates ==
    \A name \in Names :
        /\ Resolving(name).kind \in Outcomes
        /\ Resolving(name).depth <= Len(structures) + 1

\* C4 witness: a profile with a parent cycle, a self-parent, a missing parent
\* or a malformed descriptor is loaded and a call for it has ended with the
\* error; the entries of the cache show that the resolver has run.
C4_Witness ==
    /\ \E name \in Names :
          /\ HasName(structures, name)
          /\ Resolving(name).kind \in Outcomes \ {"ok"}
          /\ Resolving(name).depth >= 2
    /\ resolved_offsets # EmptyMap

\* Whether no element of the sequence q occurs in it twice.
NoRepeats(q) == \A i, j \in 1..Len(q) : q[i] = q[j] => i = j

\* C5: a resolve call that succeeds computes and probes no name twice, and
\* from an empty cache it computes every name of the chain once; the same
\* call made again returns the same offset from the cache, computes and
\* probes nothing and leaves the caches as they are, and so does a call for
\* any name of the chain.
C5_ResolvedOnce ==
    [][\A name \in Names :
          (resolve(name) /\ Resolving(name).kind = "ok") =>
              LET r == Resolving(name)
              IN  /\ NoRepeats(r.computed)
                  /\ NoRepeats(r.probed)
                  /\ resolved_offsets = EmptyMap => Len(r.computed) = r.depth
                  /\ \A n \in {name} \cup SeqToSet(r.computed) :
                        /\ Resolving(n)'.kind = "ok"
                        /\ Resolving(n)'.off = resolved_offsets'[n]
                        /\ Resolving(n)'.computed = <<>>
                        /\ Resolving(n)'.probed = <<>>
                        /\ Resolving(n)'.ro = resolved_offsets'
                        /\ Resolving(n)'.rs = resolved_sizes'
                  /\ Resolving(name)'.off = r.off]_vars

\* C5 witness: the chain Root <- Child <- Leaf is loaded and resolved.
C5_Witness ==
    /\ Relative(structures, "Leaf") /\ RowOf(structures, "Leaf").parent = "Child"
    /\ Relative(structures, "Child") /\ RowOf(structures, "Child").parent = "Root"
    /\ ExplicitOffset(structures, "Root")
    /\ {"Root", "Child", "Leaf"} \subseteq DOMAIN resolved_offsets
    /\ stale_offsets = {}

\* The probe resolve makes for the relative descriptor name, given the state
\* after the call, in which the parent's offset is cached.
ProbeOf(name, ro) ==
    read_metadata(binary_data,
        ro[RowOf(structures, name).parent]
            + parse_num(RowOf(structures, name).rOffset)[1])

\* Whether this step is a resolve call that computes the relative descriptor
\* name after its parent resolved.
ResolvesRelative(name) ==
    /\ Relative(structures, name)
    /\ name \notin DOMAIN resolved_offsets
    /\ name \in DOMAIN resolved_offsets'
    /\ RowOf(structures, name).parent \in DOMAIN resolved_offsets'
    /\ parse_num(RowOf(structures, name).rOffset) # <<>>
    /\ resolve(name)

\* C6: when resolve computes a relative descriptor and the probe at
\* parent_offset + relative_offset gives (pointer, size), it returns and
\* caches pointer as the offset and size as the discovered size; on the 64
\* byte image with Root at 0 and Child at rOffset 8 of Root, that is offset
\* 32 and size 16.
C6_ProbeSuccessIsCached ==
    [][\A name \in Names :
          ResolvesRelative(name) =>
              LET m == ProbeOf(name, resolved_offsets')
              IN  /\ m.ok =>
                        /\ Resolving(name).kind = "ok"
                        /\ Resolving(name).off = m.ptr
                        /\ resolved_offsets'[name] = m.ptr
                        /\ name \in DOMAIN resolved_sizes'
                        /\ resolved_sizes'[name] = m.size
                  /\ (/\ binary_data = Img64
                      /\ resolved_offsets'[RowOf(structures, name).parent] = 0
                      /\ parse_num(RowOf(structures, name).rOffset) = <<8>>)
                     => /\ Resolving(name).off = 32
                        /\ resolved_offsets'[name] = 32
                        /\ name \in DOMAIN resolved_sizes'
                        /\ resolved_sizes'[name] = 16]_vars

\* C6 witness: the example of the specification has been resolved.
C6_Witness ==
    /\ binary_data = Img64
    /\ structures = ExampleCsv
    /\ resolved_offsets = ("Root" :> 0) @@ ("Child" :> 32)
    /\ resolved_sizes = ("Child" :> 16)
    /\ stale_offsets = {} /\ stale_sizes = {}

\* C7: when resolve computes a relative descriptor and the probe at
\* parent_offset + relative_offset gives nothing, the call does not fail: it
\* returns and caches parent_offset + relative_offset and records no
\* discovered size for the name.
C7_ProbeFailureFallsBack ==
    [][\A name \in Names :
          ResolvesRelative(name) =>
              LET m == ProbeOf(name, resolved_offsets')
                  flat == resolved_offsets'[RowOf(structures, name).parent]
                          + parse_num(RowOf(structures, name).rOffset)[1]
              IN  ~m.ok =>
                    /\ Resolving(name).kind = "ok"
                    /\ Resolving(name).off = flat
                    /\ resolved_offsets'[name] = flat
                    /\ name \in DOMAIN resolved_sizes'
                          <=> name \in DOMAIN resolved_sizes
                    /\ name \in DOMAIN resolved_sizes
                          => resolved_sizes'[name] = resolved_sizes[name]]_vars

\* C7 witness: a relative descriptor was resolved to an offset before the
\* start of the image, where no probe can succeed, and has no size.
C7_Witness ==
    \E name \in Names :
        /\ Relative(structures, name)
        /\ name \in DOMAIN resolved_offsets
        /\ name \notin stale_offsets
        /\ resolved_offsets[name] < 0
        /\ name \notin DOMAIN resolved_sizes

\* C8: after resolve_all_offsets, every name of the profile whose own
\* resolution succeeds is resolved, wherever a failing name stands.
C8_ResolveAllIsolates ==
    result.method = "resolve_all_offsets" =>
        \A name \in NamesOf(structures) :
            ParserResolving(name).kind = "ok"
                => name \in DOMAIN resolved_offsets

\* Whether the row declares exactly the offset and the size given.
Declares(row, offset, size) ==
    /\ row.offset # <<>> /\ parse_num(row.offset) = <<offset>>
    /\ row.size # <<>> /\ parse_num(row.size) = <<size>>

\* The row of name among the rows of a file that was written.
WrittenRow(rows, name) == rows[CHOOSE i \in 1..Len(rows) : rows[i].name = name]

\* C9: when analyze_rel has resolved the name and found its size, it asks
\* for a correction exactly if the row does not declare the offset and size
\* it found.  Without one, nothing is written and profile and path stay.
\* With one, and the file written, the row written for the name holds the
\* hexadecimal literals of the offset and size found, the profile becomes
\* the updated file, and its row declares the offset and size found (an
\* offset below zero excepted, whose literal is no number); declared (0x10,
\* 0x20) against found (0x14, 0x20) gives the offset 0x14.
C9_CorrectionIffMismatch ==
    \A name \in Names, writable \in BOOLEAN :
        LET a == Analyzing(name, writable)
            agrees == Declares(RowOf(structures, name), a.absolute, a.size)
        IN  a.outcome = "analyzed" =>
              /\ agrees =>
                    /\ ~a.corrected
                    /\ a.written = <<>>
                    /\ a.st = structures
                    /\ a.cp = csv_path
              /\ ~agrees =>
                    /\ a.corrected
                    /\ writable =>
                          /\ a.written # <<>>
                          /\ WrittenRow(a.written, name).offset
                                = FormatHex(a.absolute)
                          /\ WrittenRow(a.written, name).size
                                = FormatHex(a.size)
                          /\ a.cp = UpdatedPath(csv_path)
                          /\ HasName(a.st, name)
                          /\ a.absolute >= 0 =>
                                Declares(RowOf(a.st, name), a.absolute, a.size)
                          /\ (a.absolute = 20 /\ a.size = 32) =>
                                /\ RowOf(a.st, name).offset
                                      = <<"0", "x", "1", "4">>
                                /\ RowOf(a.st, name).size
                                      = <<"0", "x", "2", "0">>

\* C9 witness: the row Root, declared at 16 with size 0x20, was analyzed on
\* the 64 byte image, found at 0x14 with size 0x20, and corrected.
C9_Witness ==
    /\ binary_data = Img64
    /\ csv_path = Path("bad.csv", 1)
    /\ RowOf(structures, "Root").offset = <<"0", "x", "1", "4">>
    /\ RowOf(structures, "Root").size = <<"0", "x", "2", "0">>
    /\ resolved_offsets = ("Root" :> 20)
    /\ resolved_sizes = ("Root" :> 32)

\* C10: a correction that is written and read back changes only the offset
\* and the size of the corrected row: its name, rOffset and parent stay, and
\* every other row stays as it is, in the same order.
C10_CorrectionFrame ==
    [][\A name \in Names, writable \in BOOLEAN :
          (/\ csv_path' # csv_path
           /\ analyze_rel(name, writable)
           /\ Analyzing(name, writable).written # <<>>) =>
              /\ Len(structures') = Len(structures)
              /\ \A i \in 1..Len(structures) :
                    /\ structures'[i].name = structures[i].name
                    /\ structures'[i].rOffset = structures[i].rOffset
                    /\ structures'[i].parent = structures[i].parent
                    /\ structures[i].name # name
                          => structures'[i] = structures[i]]_vars

\* C10 witness: a relative row of a profile of several rows was corrected:
\* it now has an offset beside its rOffset and parent.
C10_Witness ==
    /\ csv_path.upd > 0
    /\ Len(structures) > 1
    /\ \E i \in 1..Len(structures) :
          /\ structures[i].offset # <<>>
          /\ structures[i].rOffset # <<>>
          /\ structures[i].parent # ""

\* C11: when analyze_rel has found the offset and the size, it warns that
\* the region is out of range exactly if the offset is below zero or offset
\* plus size is beyond the end of the image.  With the warning no bytes are
\* shown, and the correction is made all the same: the row written holds
\* the literals of the offset and size found, the profile becomes the file
\* written, and a pointer that replaced the resolved offset is cached with
\* its size.  Without the warning the bytes [offset, offset + size) are
\* shown.
C11_OutOfRangeFlagged ==
    \A name \in Names, writable \in BOOLEAN :
        LET a == Analyzing(name, writable)
        IN  a.outcome = "analyzed" =>
              /\ a.oor <=> (\/ a.absolute < 0
                            \/ a.absolute + a.size > Len(binary_data))
              /\ ~a.oor =>
                    /\ Len(a.shown) = a.size
                    /\ \A i \in 1..a.size :
                          a.shown[i] = binary_data[a.absolute + i]
              /\ a.oor =>
                    /\ a.shown = <<>>
                    /\ a.corrected
                          <=> ~Declares(RowOf(structures, name), a.absolute,
                                        a.size)
                    /\ (a.corrected /\ writable) =>
                          /\ WrittenRow(a.written, name).offset
                                = FormatHex(a.absolute)
                          /\ WrittenRow(a.written, name).size
                                = FormatHex(a.size)
                          /\ a.st = ReadRows(a.written, <<>>)
                    /\ a.rechased =>
                          /\ a.ro[name] = a.absolute
                          /\ a.rs[name] = a.size

\* C11 witness: on the 20 byte image the row Root, declared at 16, was
\* analyzed: the pointer at 16 is 25, past the end of the image, and the
\* row was corrected to it.
C11_Witness ==
    /\ binary_data = Img20
    /\ csv_path.upd > 0
    /\ "Root" \in DOMAIN resolved_offsets
    /\ resolved_offsets["Root"] = 25
    /\ resolved_offsets["Root"] + resolved_sizes["Root"] > Len(binary_data)
    /\ RowOf(structures, "Root").offset = <<"0", "x", "1", "9">>
    /\ "Root" \notin stale_offsets

\* C12: when write_resolved_csv has written the resolved profile, a new
\* parser on the same image and the file written resolves every name of the
\* profile to the offset it had when the file was written.
C12_ResolvedRoundTrip ==
    Wrote =>
        \A name \in NamesOf(structures) :
            LET r == get_absolute_offset(name, {}, Reloaded(result.rows),
                                         binary_data, EmptyMap, EmptyMap, 1)
            IN  /\ r.kind = "ok"
                /\ r.off = resolved_offsets[name]

\* The size discovered for name in the cache rs, <<>> if there is none.
SizeIn(rs, name) == IF name \in DOMAIN rs THEN <<rs[name]>> ELSE <<>>

\* C13: from empty caches, on the same profile and the same image, the batch
\* resolver and the interactive resolver end the same way for every name:
\* with the same offset and the same discovered size, or the same error.
C13_ResolversAgree ==
    \A name \in Names :
        LET b == get_absolute_offset(name, {}, structures, binary_data,
                                     EmptyMap, EmptyMap, 1)
            i == resolve_offset_recursive(name, {}, structures, binary_data,
                                          EmptyMap, EmptyMap, 1)
        IN  /\ b.kind = i.kind
            /\ b.kind = "ok" =>
                  /\ b.off = i.off
                  /\ SizeIn(b.rs, name) = SizeIn(i.rs, name)

RECURSIVE SchemaOutcome(_, _, _)
\* What the descriptors alone decide about name, following parent
\* references in the order the resolver reaches them: the first error met,
\* or "ok" when an explicit offset that is a number ends the chain.
SchemaOutcome(st, name, visited) ==
    IF name \in visited THEN "CircularReference"
    ELSE IF ~HasName(st, name) THEN "NotFound"
    ELSE IF RowOf(st, name).offset # <<>>
    THEN IF parse_num(RowOf(st, name).offset) = <<>>
         THEN "InvalidOffsetLiteral" ELSE "ok"
    ELSE IF RowOf(st, name).rOffset # <<>> /\ RowOf(st, name).parent # ""
    THEN IF parse_num(RowOf(st, name).rOffset) = <<>>
         THEN "InvalidOffsetLiteral"
         ELSE SchemaOutcome(st, RowOf(st, name).parent, visited \cup {name})
    ELSE "MalformedDescriptor"

\* The errors of a profile's author.
AuthoringErrors == {"NotFound", "MalformedDescriptor", "InvalidOffsetLiteral"}

\* C14: when name, or a descriptor reached from it through parent
\* references, is absent, malformed or holds a literal that is no number,
\* resolve(name) fails with that error and returns no offset.
C14_SchemaErrorsSurface ==
    \A name \in Names :
        SchemaOutcome(structures, name, {}) \in AuthoringErrors =>
            Resolving(name).kind = SchemaOutcome(structures, name, {})

\* C15: a view or a dump of a named structure whose range [offset,
\* offset + size) is not inside the image reports that it is out of range.
C15_OutOfRangeSurfaced ==
    (/\ result.method \in {"view_structure", "dump_structure"}
     /\ result.kind = "ok"
     /\ \/ result.off < 0
        \/ result.off + result.size > Len(binary_data))
        => result.warned

\* Whether the last call was a call of one of the two probes.
ProbeCalled ==
    result.method \in {"InteractiveSleuth._read_metadata",
                       "SleuthParser._read_metadata"}

\* The little-endian value of the bytes [lo, hi) of the image, which lie
\* inside it.
WordAt(lo, hi) == from_bytes_little(SubSeq(binary_data, lo + 1, hi))

\* C16: every pair a probe returns, from either layout and in either
\* implementation, has 0 <= pointer < length of the image and
\* pointer + size <= length of the image.
C16_ProbeSound ==
    (ProbeCalled /\ result.meta.ok) =>
        /\ 0 <= result.meta.ptr
        /\ result.meta.ptr < Len(binary_data)
        /\ result.meta.ptr + result.meta.size <= Len(binary_data)

\* C16 witness: the interactive probe returned a pair of the 8+4 layout
\* with a size above zero that ends with the image.
C16_Witness ==
    /\ result.method = "InteractiveSleuth._read_metadata"
    /\ result.meta.ok
    /\ result.meta.layout = "8+4"
    /\ result.meta.size > 0
    /\ result.meta.ptr + result.meta.size = Len(binary_data)

\* C17: a probe returns a pair of the 4+4 layout only at a position of 4 or
\* more, and the size of the pair is the little-endian value of the four
\* bytes before the position.
C17_SizeFieldInside ==
    (ProbeCalled /\ result.meta.ok /\ result.meta.layout = "4+4") =>
        /\ result.off - 4 >= 0
        /\ result.meta.size = WordAt(result.off - 4, result.off)

\* C18: at a position p with p - 4 >= 0 and p + 4 <= length of the image,
\* where the four bytes before p and the four bytes at p hold a size and a
\* pointer that the range-validity rule accepts, a probe returns that pair
\* as the pair of the 4+4 layout.
C18_FourFourSelected ==
    (/\ ProbeCalled
     /\ result.off - 4 >= 0
     /\ result.off + 4 <= Len(binary_data)
     /\ 0 <= WordAt(result.off, result.off + 4)
     /\ WordAt(result.off, result.off + 4) < Len(binary_data)
     /\ WordAt(result.off, result.off + 4)
           + WordAt(result.off - 4, result.off) <= Len(binary_data))
        => result.meta = Meta(WordAt(result.off, result.off + 4),
                              WordAt(result.off - 4, result.off), "4+4")

\* C19: at a position whose fields of both layouts lie inside the image,
\* where pointer + size of the 4+4 layout is beyond the end of the image
\* and the pair of the 8+4 layout is accepted by the range-validity rule, a
\* probe returns the pair of the 8+4 layout.
C19_EightFourTried ==
    (/\ ProbeCalled
     /\ result.off - 4 >= 0
     /\ result.off + 12 <= Len(binary_data)
     /\ WordAt(result.off, result.off + 4)
           + WordAt(result.off - 4, result.off) > Len(binary_data)
     /\ 0 <= WordAt(result.off, result.off + 8)
     /\ WordAt(result.off, result.off + 8) < Len(binary_data)
     /\ WordAt(result.off, result.off + 8)
           + WordAt(result.off + 8, result.off + 12) <= Len(binary_data))
        => result.meta = Meta(WordAt(result.off, result.off + 8),
                              WordAt(result.off + 8, result.off + 12), "8+4")

\* C20: a step that does not reload the profile leaves every offset that is
\* cached in resolved_offsets cached with the same value.
C20_CachedOffsetWriteOnce ==
    [][csv_path' = csv_path =>
          \A name \in DOMAIN resolved_offsets :
              /\ name \in DOMAIN resolved_offsets'
              /\ resolved_offsets'[name] = resolved_offsets[name]]_vars

\* Whether the size cached for name is the size of a successful probe at
\* parent_offset + relative_offset whose pointer is the offset cached for
\* name.
SizeFromProbe(name) ==
    /\ HasName(structures, name)
    /\ RowOf(structures, name).rOffset # <<>>
    /\ RowOf(structures, name).parent # ""
    /\ parse_num(RowOf(structures, name).rOffset) # <<>>
    /\ name \in DOMAIN resolved_offsets
    /\ RowOf(structures, name).parent \in DOMAIN resolved_offsets
    /\ ProbeOf(name, resolved_offsets).ok
    /\ ProbeOf(name, resolved_offsets).ptr = resolved_offsets[name]
    /\ ProbeOf(name, resolved_offsets).size = resolved_sizes[name]

\* C21: in every state, a name has a discovered size only if its cached
\* offset is the pointer of a successful probe at parent_offset +
\* relative_offset, and the size is that probe's size.
C21_SizeOnlyFromProbe ==
    \A name \in DOMAIN resolved_sizes : SizeFromProbe(name)

\* C22: a resolve call, the probes it makes included, changes nothing but
\* the resolution cache: the profile, its path, the image and its path stay
\* as they are (no step that changes one of them is a resolve call).
C22_ResolveFrame ==
    [][(\/ structures' # structures
        \/ csv_path' # csv_path
        \/ binary_data' # binary_data
        \/ binary_path' # binary_path)
          => \A name \in Names : ~resolve(name)]_vars

\* C22 witness: the chain profile is loaded as the file holds it, on the 64
\* byte image, and all its names are resolved, Child by a probe.
C22_Witness ==
    /\ binary_data = Img64
    /\ csv_path = Path("chain.csv", 0)
    /\ structures = ReadRows(ChainCsv, <<>>)
    /\ DOMAIN resolved_offsets = {"Root", "Child", "Leaf"}
    /\ "Child" \in DOMAIN resolved_sizes
    /\ stale_offsets = {} /\ stale_sizes = {}

\* C23: a resolve call that fails, with whatever error, leaves the cached
\* offsets and the cached sizes as they were before the call.
C23_FailedResolveKeepsCache ==
    \A name \in Names :
        Resolving(name).kind # "ok" =>
            /\ Resolving(name).ro = resolved_offsets
            /\ Resolving(name).rs = resolved_sizes

\* C23 witness: the profile bad.csv has been resolved name by name: Root is
\* cached, and Child, whose parent Ghost is absent, fails two calls deep
\* and is not cached.
C23_Witness ==
    /\ csv_path = Path("bad.csv", 0)
    /\ DOMAIN resolved_offsets = {"Root"}
    /\ stale_offsets = {}
    /\ Resolving("Child").kind = "NotFound"
    /\ Resolving("Child").depth = 2
    /\ Resolving("Leaf").kind = "InvalidOffsetLiteral"
    /\ Resolving("Bad").kind = "MalformedDescriptor"

\* The call of _get_absolute_offset(name) alone, from empty caches, on the
\* profile and the image of the state.
ParserAlone(name) ==
    get_absolute_offset(name, {}, structures, binary_data, EmptyMap,
                        EmptyMap, 1)

\* C24: whatever calls filled the caches of a parser, and in whatever
\* order, the offset and the discovered size cached for a name are those a
\* single call for that name alone gives from empty caches.
C24_OrderIndependent ==
    /\ DOMAIN resolved_sizes \subseteq DOMAIN resolved_offsets
    /\ \A name \in DOMAIN resolved_offsets :
          /\ ParserAlone(name).kind = "ok"
          /\ ParserAlone(name).off = resolved_offsets[name]
          /\ SizeIn(ParserAlone(name).rs, name) = SizeIn(resolved_sizes, name)

\* C24 witness: on the chain Root <- Child <- Leaf the last call was for
\* Root and found it cached, so Leaf or Child was asked for before it, and
\* all three are cached, Child with a discovered size.
C24_Witness ==
    /\ csv_path = Path("chain.csv", 0)
    /\ result.method = "_get_absolute_offset"
    /\ result.name = "Root"
    /\ result.kind = "ok"
    /\ DOMAIN resolved_offsets = {"Root", "Child", "Leaf"}
    /\ DOMAIN resolved_sizes = {"Child"}

\* The call of analyze_rel(name) right after the list command, in the state
\* as it is; the updated profile can be written.
AnalyzingAfterList(name) ==
    analyze_rel_on(name, structures, binary_data, Listing.ro, Listing.rs,
                   csv_path, TRUE)

\* C25: when analyze_rel(name) has written a correction and reloaded the
\* profile, the same call made again gets as far as the comparison and asks
\* for no correction, and neither does it when the list command has run in
\* between.
C25_CorrectionFixedPoint ==
    [][\A name \in Names :
          (/\ csv_path' # csv_path
           /\ analyze_rel(name, TRUE)
           /\ Analyzing(name, TRUE).written # <<>>) =>
              /\ Analyzing(name, TRUE)'.outcome = "analyzed"
              /\ ~Analyzing(name, TRUE)'.corrected
              /\ AnalyzingAfterList(name)'.outcome = "analyzed"
              /\ ~AnalyzingAfterList(name)'.corrected]_vars

====
